---- MODULE Spec2Model ----
(***************************************************************************)
(* AsyncExternalTaskClient (camunda/client/async_external_task_client.py): *)
(* the lease-acquire / complete / failure / bpmnError protocol client.     *)
(*                                                                         *)
(* Each call of an operation is a coroutine.  Its positions are            *)
(*   "idle"      not yet invoked                                           *)
(*   "built"     url and body are built, the coroutine is suspended on     *)
(*               entering `async with httpx.AsyncClient()`                 *)
(*   "awaiting"  headers are assembled, the POST is on the wire, the       *)
(*               coroutine is suspended on `await client.post(...)`        *)
(*   "done"      the coroutine returned a value or raised                  *)
(* Calls interleave only at these suspension points.                       *)
(***************************************************************************)
EXTENDS Integers, Sequences, FiniteSets, TLC

VARIABLES
    client,     \* the attributes __init__ sets on self
    pc,         \* pc[c]: position of call c
    op,         \* op[c]: the operation call c runs
    args,       \* args[c]: the arguments call c was invoked with
    local,      \* local[c]: the coroutine's locals url, body, http_timeout_seconds
    wire,       \* wire[c]: the HTTP requests call c has posted, in order
    reply,      \* reply[c]: what the transport handed back to call c
    outcome,    \* outcome[c]: the value call c returned or the error it raised
    acked,      \* history: task ids for which a complete call has returned True
    seen        \* history: seen[c] is acked as it was when call c was invoked

vars == <<client, pc, op, args, local, wire, reply, outcome, acked, seen>>

-----------------------------------------------------------------------------
(* Bounds of the model *)

NCalls == 2             \* call slots (coroutines) of the concurrent model
MaxTopics == 2          \* longest topic_names list
MaxRetries == 2         \* largest retries argument of failure
MaxMillisUnits == 2     \* timeouts range over 0..MaxMillisUnits half seconds

Calls == 1..NCalls

-----------------------------------------------------------------------------
(* Python values.  A value whose type varies is tagged with its type. *)

PyNone == [t |-> "None"]
PyStr(s) == [t |-> "str", v |-> s]
PyInt(i) == [t |-> "int", v |-> i]
PyBool(b) == [t |-> "bool", v |-> b]
PyDict(f) == [t |-> "dict", v |-> f]
PyList(s) == [t |-> "list", v |-> s]
EmptyDict == PyDict(<<>>)

\* Python truth value testing, as used by `if x`, `x or y`, `not x`
Truthy(x) ==
    CASE x.t = "None" -> FALSE
      [] x.t = "str"  -> x.v # ""
      [] x.t = "int"  -> x.v # 0
      [] x.t = "bool" -> x.v
      [] x.t = "dict" -> DOMAIN x.v # {}
      [] x.t = "list" -> Len(x.v) > 0

PyOr(x, y) == IF Truthy(x) THEN x ELSE y

IsDict(x) == x.t = "dict"

\* dict.get(key): None when the key is absent
Get(d, key) == IF key \in DOMAIN d THEN d[key] ELSE PyNone

\* dict.get(key, default)
GetOr(d, key, default) == IF key \in DOMAIN d THEN d[key] ELSE default

\* dict.update(other): the other's entries win
Update(d, other) ==
    [k \in DOMAIN d \cup DOMAIN other |-> IF k \in DOMAIN other THEN other[k] ELSE d[k]]

\* str(x) for the worker ids of the model
Digits == <<"0", "1", "2", "3", "4", "5", "6", "7", "8", "9">>
ToStr(x) == IF x.t = "str" THEN x ELSE PyStr(Digits[x.v + 1])

\* x / 1000 (true division): the quotient as a fraction
DivThousand(ms) == [num |-> ms, den |-> 1000]

\* a number of seconds in milliseconds, and whether it is a whole number of them
Millis(sec) == (sec.num * 1000) \div sec.den
WholeMillis(sec) == (sec.num * 1000) % sec.den = 0

-----------------------------------------------------------------------------
(* Construction *)

default_config ==
    [ maxConcurrentTasks |-> 10,
      lockDuration |-> 300000,
      asyncResponseTimeout |-> 30000,
      retries |-> 3,
      retryTimeout |-> 300000,
      httpTimeoutMillis |-> 30000,
      timeoutDeltaMillis |-> 5000,
      includeExtensionProperties |-> PyBool(TRUE),
      deserializeValues |-> PyBool(TRUE),
      usePriority |-> PyBool(FALSE),
      sorting |-> PyNone ]

ENGINE_LOCAL_BASE_URL == "http://localhost:8080/engine-rest"

\* __init__(worker_id, engine_base_url, config)
Construct(worker_id, engine_base_url, config) ==
    LET merged == Update(default_config, config) IN
    [ worker_id |-> worker_id,
      external_task_base_url |-> <<engine_base_url, "external-task">>,
      config |-> merged,
      is_debug |-> GetOr(config, "isDebug", PyBool(FALSE)),
      http_timeout_seconds |-> DivThousand(merged.httpTimeoutMillis) ]

-----------------------------------------------------------------------------
(* Collaborators that live outside async_external_task_client.py *)

\* camunda.utils.utils.str_to_list: a single name becomes a one-element list
str_to_list(values) == IF values.t = "str" THEN <<values.v>> ELSE values.v

\* camunda.variables.variables.Variables.format: absent variables give an
\* empty mapping, each given variable is wrapped as {"value": v}
Variables_format(variables) ==
    IF Truthy(variables)
    THEN PyDict([k \in DOMAIN variables.v |-> [value |-> variables.v[k]]])
    ELSE EmptyDict

\* camunda.utils.auth_basic.AuthBasic(**d): needs username and password
AuthBasicValid(d) == {"username", "password"} \subseteq DOMAIN d.v
AuthBasicToken(d) == <<"Basic", d.v["username"], d.v["password"]>>

\* camunda.utils.auth_bearer.AuthBearer(access_token=d): needs access_token
AuthBearerValid(d) == "access_token" \in DOMAIN d.v
AuthBearerToken(d) == <<"Bearer", d.v["access_token"]>>

\* camunda.utils.response_utils.raise_exception_if_not_ok: nothing on a 2xx
\* response, otherwise the orchestrator's rejection with its status
IsSuccess(status) == status \in 200..299
Returned(value) == [kind |-> "return", exc |-> "", status |-> 0, value |-> value]
Raised(exc, status) == [kind |-> "raise", exc |-> exc, status |-> status, value |-> PyNone]
NotRaised == [kind |-> "none", exc |-> "", status |-> 0, value |-> PyNone]

raise_exception_if_not_ok(response) ==
    IF IsSuccess(response.status)
    THEN NotRaised
    ELSE Raised("OrchestratorError", response.status)

\* httpx.Response.raise_for_status: nothing on a 2xx response, otherwise
\* httpx.HTTPStatusError, whose response holds the status
raise_for_status(response) ==
    IF IsSuccess(response.status)
    THEN NotRaised
    ELSE Raised("HTTPStatusError", response.status)

\* response.json(): the decoded body, or a decoding error
response_json(response) ==
    IF response.body = "not json"
    THEN Raised("JSONDecodeError", 0)
    ELSE Returned(PyStr(response.body))

-----------------------------------------------------------------------------
(* URLs *)

get_fetch_and_lock_url(self) == Append(self.external_task_base_url, "fetchAndLock")
get_task_complete_url(self, task_id) == self.external_task_base_url \o <<task_id, "complete">>
get_task_failure_url(self, task_id) == self.external_task_base_url \o <<task_id, "failure">>
get_task_bpmn_error_url(self, task_id) == self.external_task_base_url \o <<task_id, "bpmnError">>

-----------------------------------------------------------------------------
(* Authentication and headers *)

\* the auth_basic property: {} unless config["auth_basic"] is a non-empty dict
AuthBasicSet(self) ==
    Truthy(Get(self.config, "auth_basic")) /\ IsDict(Get(self.config, "auth_basic"))
auth_basic(self) ==
    IF ~AuthBasicSet(self)
    THEN <<>>
    ELSE [k \in {"Authorization"} |-> AuthBasicToken(Get(self.config, "auth_basic"))]

\* the auth_bearer property: {} unless config["auth_bearer"] is a non-empty dict
AuthBearerSet(self) ==
    Truthy(Get(self.config, "auth_bearer")) /\ IsDict(Get(self.config, "auth_bearer"))
auth_bearer(self) ==
    IF ~AuthBearerSet(self)
    THEN <<>>
    ELSE [k \in {"Authorization"} |-> AuthBearerToken(Get(self.config, "auth_bearer"))]

\* _get_headers raises when a credential object cannot be built
HeadersRaise(self) ==
    \/ AuthBasicSet(self) /\ ~AuthBasicValid(Get(self.config, "auth_basic"))
    \/ AuthBearerSet(self) /\ ~AuthBearerValid(Get(self.config, "auth_bearer"))

BaseHeaders == [k \in {"Content-Type"} |-> "application/json"]

\* a variant that applies the basic strategy after the bearer strategy
GetHeadersBasicLast(self) ==
    LET h1 == IF DOMAIN auth_bearer(self) # {}
              THEN Update(BaseHeaders, auth_bearer(self)) ELSE BaseHeaders
        h2 == IF DOMAIN auth_basic(self) # {}
              THEN Update(h1, auth_basic(self)) ELSE h1
    IN h2

_get_headers(self) ==
    LET h1 == IF DOMAIN auth_basic(self) # {}
              THEN Update(BaseHeaders, auth_basic(self)) ELSE BaseHeaders
        h2 == IF DOMAIN auth_bearer(self) # {}
              THEN Update(h1, auth_bearer(self)) ELSE h1
    IN h2

-----------------------------------------------------------------------------
(* Request bodies *)

\* a variant that divides with // (floor division)
FetchAndLockTimeoutFloored(self) ==
    [num |-> (self.config.timeoutDeltaMillis + self.config.asyncResponseTimeout) \div 1000,
     den |-> 1]

__get_fetch_and_lock_http_timeout_seconds(self) ==
    DivThousand(self.config.timeoutDeltaMillis + self.config.asyncResponseTimeout)

Topic(self, topic, process_variables, variables) ==
    [ topicName |-> topic,
      lockDuration |-> self.config.lockDuration,
      processVariables |-> IF Truthy(process_variables) THEN process_variables ELSE EmptyDict,
      includeExtensionProperties |->
          PyOr(Get(self.config, "includeExtensionProperties"), PyBool(FALSE)),
      deserializeValues |-> self.config.deserializeValues,
      variables |-> variables ]

\* a variant that applies the process variable filter to the first topic only
GetTopicsFirstFiltered(self, topic_names, process_variables, variables) ==
    LET names == str_to_list(topic_names) IN
    [i \in 1..Len(names) |->
        Topic(self, names[i], IF i = 1 THEN process_variables ELSE PyNone, variables)]

_get_topics(self, topic_names, process_variables, variables) ==
    LET names == str_to_list(topic_names) IN
    [i \in 1..Len(names) |-> Topic(self, names[i], process_variables, variables)]

FetchAndLockBody(self, topic_names, process_variables, variables) ==
    [ workerId |-> ToStr(self.worker_id),
      maxTasks |-> 1,
      topics |-> _get_topics(self, topic_names, process_variables, variables),
      asyncResponseTimeout |-> self.config.asyncResponseTimeout,
      usePriority |-> self.config.usePriority,
      sorting |-> self.config.sorting ]

CompleteBody(self, global_variables, local_variables) ==
    [ workerId |-> self.worker_id,
      variables |-> Variables_format(global_variables),
      localVariables |-> Variables_format(local_variables) ]

\* a variant that tests `error_details is not None`
FailureBodyDetailsNotNone(self, error_message, error_details, retries, retry_timeout) ==
    LET body == [ workerId |-> self.worker_id,
                  errorMessage |-> error_message,
                  retries |-> retries,
                  retryTimeout |-> retry_timeout ]
    IN IF error_details.t # "None"
       THEN Update(body, [k \in {"errorDetails"} |-> error_details])
       ELSE body

\* a variant that sends `retries or self.config["retries"]`
FailureBodyDefaultRetries(self, error_message, error_details, retries, retry_timeout) ==
    LET body == [ workerId |-> self.worker_id,
                  errorMessage |-> error_message,
                  retries |-> IF retries # 0 THEN retries ELSE self.config.retries,
                  retryTimeout |-> retry_timeout ]
    IN IF Truthy(error_details)
       THEN Update(body, [k \in {"errorDetails"} |-> error_details])
       ELSE body

FailureBody(self, error_message, error_details, retries, retry_timeout) ==
    LET body == [ workerId |-> self.worker_id,
                  errorMessage |-> error_message,
                  retries |-> retries,
                  retryTimeout |-> retry_timeout ]
    IN IF Truthy(error_details)
       THEN Update(body, [k \in {"errorDetails"} |-> error_details])
       ELSE body

BpmnFailureBody(self, error_code, error_message, variables) ==
    [ workerId |-> self.worker_id,
      errorCode |-> error_code,
      errorMessage |-> error_message,
      variables |-> Variables_format(variables) ]

Request(url, headers, json, timeout) ==
    [url |-> url, headers |-> headers, json |-> json, timeout |-> timeout]

-----------------------------------------------------------------------------
(* What the transport can hand back *)

NO_CONTENT == 204
Statuses == {200, NO_CONTENT, 302, 404}
TransportFailures == {"ReadTimeout", "ConnectError"}

NoReply == [kind |-> "none", status |-> 0, body |-> "", exc |-> ""]
Response(status, body) == [kind |-> "response", status |-> status, body |-> body, exc |-> ""]
Failure(exc) == [kind |-> "error", status |-> 0, body |-> "", exc |-> exc]

FetchReplies ==
    {Response(200, b) : b \in {"[]", "[task]", "not json"}}
        \cup {Response(s, "{error}") : s \in Statuses \ {200}}
        \cup {Failure(e) : e \in TransportFailures}
TaskReplies ==
    {Response(s, "") : s \in Statuses} \cup {Failure(e) : e \in TransportFailures}

-----------------------------------------------------------------------------
(* The steps of a call *)

NoArgs == <<>>
NoLocal == <<>>

\* call slots are numbered in the order of their invocation
Invocable(c) == pc[c] = "idle" /\ (IF c = 1 THEN TRUE ELSE pc[c - 1] # "idle")

Invoke(c, o, a, l) ==
    /\ Invocable(c)
    /\ pc' = [pc EXCEPT ![c] = "built"]
    /\ op' = [op EXCEPT ![c] = o]
    /\ args' = [args EXCEPT ![c] = a]
    /\ local' = [local EXCEPT ![c] = l]
    /\ seen' = [seen EXCEPT ![c] = acked]
    /\ UNCHANGED <<client, wire, reply, outcome, acked>>

\* `async with httpx.AsyncClient() as client: await client.post(url,
\* headers=self._get_headers(), json=body, timeout=...)` up to the suspension
Post(c, o, timeout) ==
    /\ pc[c] = "built" /\ op[c] = o
    /\ IF HeadersRaise(client)
       THEN /\ pc' = [pc EXCEPT ![c] = "done"]
            /\ outcome' = [outcome EXCEPT ![c] = Raised("ConfigurationError", 0)]
            /\ UNCHANGED wire
       ELSE /\ pc' = [pc EXCEPT ![c] = "awaiting"]
            /\ wire' = [wire EXCEPT ![c] =
                  Append(@, Request(local[c].url, _get_headers(client), local[c].body, timeout))]
            /\ UNCHANGED outcome
    /\ UNCHANGED <<client, op, args, local, reply, acked, seen>>

\* the coroutine ends with result res after the transport handed back r
Finish(c, r, res) ==
    /\ pc' = [pc EXCEPT ![c] = "done"]
    /\ reply' = [reply EXCEPT ![c] = r]
    /\ outcome' = [outcome EXCEPT ![c] = res]
    /\ UNCHANGED <<client, op, args, local, wire, seen>>

\* a variant that reports every 2xx response as success
IsNoContentAnySuccess(response) == IsSuccess(response.status)

\* `return response.status_code == HTTPStatus.NO_CONTENT`
IsNoContent(response) == response.status = NO_CONTENT

(* fetch_and_lock *)

\* a variant that keeps the long-poll deadline in self.http_timeout_seconds
FetchAndLockBeginStoresTimeout(c, topic_names, process_variables, variables) ==
    /\ Invocable(c)
    /\ client' = [client EXCEPT !.http_timeout_seconds =
                      DivThousand(client.config.timeoutDeltaMillis
                                      + client.config.asyncResponseTimeout)]
    /\ pc' = [pc EXCEPT ![c] = "built"]
    /\ op' = [op EXCEPT ![c] = "fetch_and_lock"]
    /\ args' = [args EXCEPT ![c] =
                    [topic_names |-> topic_names, process_variables |-> process_variables,
                     variables |-> variables]]
    /\ local' = [local EXCEPT ![c] =
                    [url |-> get_fetch_and_lock_url(client),
                     body |-> FetchAndLockBody(client, topic_names, process_variables, variables),
                     http_timeout_seconds |-> client'.http_timeout_seconds]]
    /\ seen' = [seen EXCEPT ![c] = acked]
    /\ UNCHANGED <<wire, reply, outcome, acked>>

FetchAndLockBegin(c, topic_names, process_variables, variables) ==
    Invoke(c, "fetch_and_lock",
           [topic_names |-> topic_names, process_variables |-> process_variables,
            variables |-> variables],
           [url |-> get_fetch_and_lock_url(client),
            body |-> FetchAndLockBody(client, topic_names, process_variables, variables),
            http_timeout_seconds |-> __get_fetch_and_lock_http_timeout_seconds(client)])

FetchAndLockPost(c) == Post(c, "fetch_and_lock", local[c].http_timeout_seconds)

FetchAndLockResult(r) ==
    IF r.kind = "error" THEN Raised("TransportError", 0)
    ELSE IF raise_exception_if_not_ok(r).kind = "raise" THEN raise_exception_if_not_ok(r)
    ELSE response_json(r)

FetchAndLockResume(c, r) ==
    /\ pc[c] = "awaiting" /\ op[c] = "fetch_and_lock"
    /\ Finish(c, r, FetchAndLockResult(r))
    /\ UNCHANGED acked

(* complete *)

\* a variant that remembers completed tasks and answers repeats locally
CompleteBeginMemoized(c, task_id, global_variables, local_variables) ==
    /\ Invocable(c)
    /\ op' = [op EXCEPT ![c] = "complete"]
    /\ args' = [args EXCEPT ![c] =
                    [task_id |-> task_id, global_variables |-> global_variables,
                     local_variables |-> local_variables]]
    /\ local' = [local EXCEPT ![c] =
                    [url |-> get_task_complete_url(client, task_id),
                     body |-> CompleteBody(client, global_variables, local_variables)]]
    /\ seen' = [seen EXCEPT ![c] = acked]
    /\ IF task_id \in acked
       THEN /\ pc' = [pc EXCEPT ![c] = "done"]
            /\ outcome' = [outcome EXCEPT ![c] = Returned(PyBool(TRUE))]
       ELSE /\ pc' = [pc EXCEPT ![c] = "built"]
            /\ UNCHANGED outcome
    /\ UNCHANGED <<client, wire, reply, acked>>

CompleteBegin(c, task_id, global_variables, local_variables) ==
    Invoke(c, "complete",
           [task_id |-> task_id, global_variables |-> global_variables,
            local_variables |-> local_variables],
           [url |-> get_task_complete_url(client, task_id),
            body |-> CompleteBody(client, global_variables, local_variables)])

CompletePost(c) == Post(c, "complete", client.http_timeout_seconds)

CompleteResult(r) ==
    IF r.kind = "error" THEN Raised("TransportError", 0)
    ELSE IF raise_exception_if_not_ok(r).kind = "raise" THEN raise_exception_if_not_ok(r)
    ELSE Returned(PyBool(IsNoContent(r)))

\* a variant that posts again after a transport failure
CompleteResumeRetrying(c, r) ==
    /\ pc[c] = "awaiting" /\ op[c] = "complete"
    /\ IF r.kind = "error"
       THEN /\ pc' = [pc EXCEPT ![c] = "built"]
            /\ UNCHANGED <<client, op, args, local, wire, reply, outcome, seen, acked>>
       ELSE /\ Finish(c, r, CompleteResult(r))
            /\ acked' = IF CompleteResult(r) = Returned(PyBool(TRUE))
                        THEN acked \cup {args[c].task_id} ELSE acked

CompleteResume(c, r) ==
    /\ pc[c] = "awaiting" /\ op[c] = "complete"
    /\ Finish(c, r, CompleteResult(r))
    /\ acked' = IF CompleteResult(r) = Returned(PyBool(TRUE))
                THEN acked \cup {args[c].task_id} ELSE acked

(* failure *)

FailureBegin(c, task_id, error_message, error_details, retries, retry_timeout) ==
    Invoke(c, "failure",
           [task_id |-> task_id, error_message |-> error_message,
            error_details |-> error_details, retries |-> retries,
            retry_timeout |-> retry_timeout],
           [url |-> get_task_failure_url(client, task_id),
            body |-> FailureBody(client, error_message, error_details, retries, retry_timeout)])

FailurePost(c) == Post(c, "failure", client.http_timeout_seconds)

FailureResult(r) ==
    IF r.kind = "error" THEN Raised("TransportError", 0)
    ELSE IF raise_exception_if_not_ok(r).kind = "raise" THEN raise_exception_if_not_ok(r)
    ELSE Returned(PyBool(IsNoContent(r)))

FailureResume(c, r) ==
    /\ pc[c] = "awaiting" /\ op[c] = "failure"
    /\ Finish(c, r, FailureResult(r))
    /\ UNCHANGED acked

(* bpmn_failure *)

BpmnFailureBegin(c, task_id, error_code, error_message, variables) ==
    Invoke(c, "bpmn_failure",
           [task_id |-> task_id, error_code |-> error_code,
            error_message |-> error_message, variables |-> variables],
           [url |-> get_task_bpmn_error_url(client, task_id),
            body |-> BpmnFailureBody(client, error_code, error_message, variables)])

BpmnFailurePost(c) == Post(c, "bpmn_failure", client.http_timeout_seconds)

BpmnFailureResult(r) ==
    IF r.kind = "error" THEN Raised("TransportError", 0)
    ELSE IF raise_for_status(r).kind = "raise" THEN raise_for_status(r)
    ELSE Returned(PyBool(IsNoContent(r)))

BpmnFailureResume(c, r) ==
    /\ pc[c] = "awaiting" /\ op[c] = "bpmn_failure"
    /\ Finish(c, r, BpmnFailureResult(r))
    /\ UNCHANGED acked

-----------------------------------------------------------------------------
(* Inputs *)

WorkerIds == {PyStr("worker-1"), PyInt(7)}
TaskIds == {"task-1", "task-2"}
TopicNames == {"a", "b"}

\* topic_names: a single name, or a list of at most MaxTopics names
TopicLists == UNION {[1..n -> TopicNames] : n \in 0..MaxTopics}
TopicInputs == {PyStr(t) : t \in TopicNames} \cup {PyList(l) : l \in TopicLists}

ProcessVariableInputs == {PyNone, EmptyDict, PyDict([x |-> EmptyDict])}
VariableInputs == {PyNone, PyList(<<"v">>)}
VariableMaps == {PyNone, PyDict([result |-> PyInt(1)])}
ErrorDetailInputs == {PyNone, PyStr(""), PyStr("stack trace")}
RetryInputs == 0..MaxRetries
MillisInputs == {500 * u : u \in 0..MaxMillisUnits}

\* the state after construction: no call invoked yet
InitWith(workers, configs) ==
    /\ client \in {Construct(w, ENGINE_LOCAL_BASE_URL, cfg) : w \in workers, cfg \in configs}
    /\ pc = [c \in Calls |-> "idle"]
    /\ op = [c \in Calls |-> "none"]
    /\ args = [c \in Calls |-> NoArgs]
    /\ local = [c \in Calls |-> NoLocal]
    /\ wire = [c \in Calls |-> <<>>]
    /\ reply = [c \in Calls |-> NoReply]
    /\ outcome = [c \in Calls |-> NotRaised]
    /\ acked = {}
    /\ seen = [c \in Calls |-> {}]

\* credential configurations: absent, None, {}, not a dict, complete, incomplete
BasicAuthInputs ==
    {PyNone, EmptyDict, PyStr("demo:secret"),
     PyDict([username |-> "demo", password |-> "secret"]),
     PyDict([username |-> "demo"])}
BearerAuthInputs ==
    {PyNone, EmptyDict, PyStr("token-1"),
     PyDict([access_token |-> "token-1"]),
     PyDict([token |-> "token-1"])}

-----------------------------------------------------------------------------
(* Concurrent calls of all four operations on one client *)

CallConfigs ==
    { <<>>,
      [auth_basic |-> PyDict([username |-> "demo", password |-> "secret"]),
       httpTimeoutMillis |-> 1500],
      [auth_bearer |-> PyDict([token |-> "token-1"])] }

Init == InitWith({PyInt(7)}, CallConfigs)

Next ==
    \E c \in Calls :
        \/ FetchAndLockBegin(c, PyStr("a"), PyNone, PyNone)
        \/ FetchAndLockPost(c)
        \/ \E r \in FetchReplies : FetchAndLockResume(c, r)
        \/ \E t \in TaskIds : CompleteBegin(c, t, PyNone, PyNone)
        \/ CompletePost(c)
        \/ \E r \in TaskReplies : CompleteResume(c, r)
        \/ \E t \in TaskIds : FailureBegin(c, t, "boom", PyNone, 0, 500)
        \/ FailurePost(c)
        \/ \E r \in TaskReplies : FailureResume(c, r)
        \/ \E t \in TaskIds : BpmnFailureBegin(c, t, "E42", "rejected", PyNone)
        \/ BpmnFailurePost(c)
        \/ \E r \in TaskReplies : BpmnFailureResume(c, r)

Spec == Init /\ [][Next]_vars

-----------------------------------------------------------------------------
(* One fetch_and_lock call, over the timeout configurations and topic inputs *)

TimeoutConfigs ==
    {<<>>}
        \cup {[asyncResponseTimeout |-> t] : t \in MillisInputs}
        \cup {[timeoutDeltaMillis |-> d] : d \in MillisInputs}
        \cup {[asyncResponseTimeout |-> t, timeoutDeltaMillis |-> d] :
                 t \in MillisInputs, d \in MillisInputs}
FetchConfigs ==
    TimeoutConfigs
        \cup {Update(cfg, [includeExtensionProperties |-> x]) :
                 cfg \in TimeoutConfigs, x \in {PyNone, PyBool(FALSE)}}

InitFetch == InitWith(WorkerIds, FetchConfigs)

NextFetch ==
    \/ \E tn \in TopicInputs, pv \in ProcessVariableInputs, v \in VariableInputs :
           FetchAndLockBegin(1, tn, pv, v)
    \/ FetchAndLockPost(1)
    \/ \E r \in FetchReplies : FetchAndLockResume(1, r)

SpecFetch == InitFetch /\ [][NextFetch]_vars

-----------------------------------------------------------------------------
(* One failure call, over its arguments *)

InitFailure == InitWith(WorkerIds, {<<>>})

NextFailure ==
    \/ \E t \in TaskIds, d \in ErrorDetailInputs, n \in RetryInputs, rt \in MillisInputs :
           FailureBegin(1, t, "boom", d, n, rt)
    \/ FailurePost(1)
    \/ \E r \in TaskReplies : FailureResume(1, r)

SpecFailure == InitFailure /\ [][NextFailure]_vars

-----------------------------------------------------------------------------
(* One call of any operation, over the credential configurations *)

AbsentOr(key, values) == {<<>>} \cup {[k \in {key} |-> x] : x \in values}
AuthConfigs ==
    {Update(b, t) : b \in AbsentOr("auth_basic", BasicAuthInputs),
                    t \in AbsentOr("auth_bearer", BearerAuthInputs)}

InitAuth == InitWith({PyStr("worker-1")}, AuthConfigs)

NextAuth ==
    \/ FetchAndLockBegin(1, PyList(<<"a", "b">>), PyNone, PyNone)
    \/ FetchAndLockPost(1)
    \/ \E r \in FetchReplies : FetchAndLockResume(1, r)
    \/ \E v \in VariableMaps : CompleteBegin(1, "task-1", v, PyNone)
    \/ CompletePost(1)
    \/ \E r \in TaskReplies : CompleteResume(1, r)
    \/ FailureBegin(1, "task-1", "boom", PyStr("stack trace"), 1, 500)
    \/ FailurePost(1)
    \/ \E r \in TaskReplies : FailureResume(1, r)
    \/ \E v \in VariableMaps : BpmnFailureBegin(1, "task-1", "E42", "rejected", v)
    \/ BpmnFailurePost(1)
    \/ \E r \in TaskReplies : BpmnFailureResume(1, r)

SpecAuth == InitAuth /\ [][NextAuth]_vars

-----------------------------------------------------------------------------
(* Well-formedness of the model's states *)

TypeOK ==
    /\ pc \in [Calls -> {"idle", "built", "awaiting", "done"}]
    /\ op \in [Calls -> {"none", "fetch_and_lock", "complete", "failure", "bpmn_failure"}]
    /\ \A c \in Calls : pc[c] = "idle" <=> op[c] = "none"
    /\ \A c \in Calls : reply[c].kind # "none" => pc[c] = "done"
    /\ acked \subseteq TaskIds

-----------------------------------------------------------------------------
(* Properties *)

Done(c) == pc[c] = "done"
Answered(c) == Done(c) /\ reply[c].kind = "response"
ReportOps == {"complete", "failure", "bpmn_failure"}
ReturnedBool(c, b) == outcome[c] = Returned(PyBool(b))
\* the requests call c has posted
Sent(c) == {wire[c][i] : i \in 1..Len(wire[c])}

\* C1: for complete, failure and bpmn_failure and every status of the
\* response, the call returns True exactly when the status is 204, returns
\* False for every other 2xx status, and raises for every non-2xx status.
C1_StatusDecidesResult ==
    \A c \in Calls :
        Answered(c) /\ op[c] \in ReportOps =>
            /\ ReturnedBool(c, TRUE) <=> reply[c].status = 204
            /\ reply[c].status \in 200..299 /\ reply[c].status # 204 => ReturnedBool(c, FALSE)
            /\ reply[c].status \notin 200..299 => outcome[c].kind = "raise"

C1_Witness ==
    \E c, d \in Calls :
        /\ Answered(c) /\ op[c] = "bpmn_failure" /\ reply[c].status = 200
        /\ ReturnedBool(c, FALSE)
        /\ Answered(d) /\ op[d] = "failure" /\ reply[d].status = 204
        /\ ReturnedBool(d, TRUE)

\* C2: a non-2xx response raises, from every one of the four operations, an
\* OrchestratorError that carries the status, and a timeout or connection
\* failure raises a TransportError.
C2_OneErrorKind ==
    \A c \in Calls :
        /\ Answered(c) /\ reply[c].status \notin 200..299 =>
               outcome[c] = Raised("OrchestratorError", reply[c].status)
        /\ Done(c) /\ reply[c].kind = "error" =>
               outcome[c] = Raised("TransportError", 0)

\* the long-poll bound and the deadline, in milliseconds, of a fetch request
LongPollBound(req) == req.json.asyncResponseTimeout
Deadline(req) == Millis(req.timeout)

Configured(key) ==
    /\ key \in DOMAIN client.config
    /\ client.config[key].t = "dict"
    /\ DOMAIN client.config[key].v # {}
BasicValue == <<"Basic", client.config["auth_basic"].v["username"],
                client.config["auth_basic"].v["password"]>>
BearerValue == <<"Bearer", client.config["auth_bearer"].v["access_token"]>>

\* C4: every request of every operation carries Content-Type:
\* application/json; its Authorization header is the bearer strategy's value
\* when both strategies are configured, the one configured strategy's value
\* when only one is, and absent when neither is.
C4_AuthorizationHeader ==
    \A c \in Calls : \A req \in Sent(c) :
        /\ req.headers["Content-Type"] = "application/json"
        /\ Configured("auth_bearer") => req.headers["Authorization"] = BearerValue
        /\ Configured("auth_basic") /\ ~Configured("auth_bearer") =>
               req.headers["Authorization"] = BasicValue
        /\ ~Configured("auth_basic") /\ ~Configured("auth_bearer") =>
               DOMAIN req.headers = {"Content-Type"}

C4_Witness ==
    \E c \in Calls : \E req \in Sent(c) :
        /\ Configured("auth_basic") /\ Configured("auth_bearer")
        /\ op[c] = "bpmn_failure"
        /\ req.headers["Authorization"] = <<"Bearer", "token-1">>

\* C5: the body of every failure request has an errorDetails field exactly
\* when the error_details argument is neither None nor "", and the field then
\* holds the argument unchanged.
C5_ErrorDetailsOnlyWhenGiven ==
    \A c \in Calls : \A req \in Sent(c) :
        op[c] = "failure" =>
            /\ "errorDetails" \in DOMAIN req.json
                   <=> args[c].error_details \notin {PyNone, PyStr("")}
            /\ "errorDetails" \in DOMAIN req.json
                   => req.json["errorDetails"] = args[c].error_details

C5_Witness ==
    \E c \in Calls : \E req \in Sent(c) :
        /\ op[c] = "failure"
        /\ args[c].error_details = PyStr("")
        /\ "errorDetails" \notin DOMAIN req.json

\* the topic names call c was given, a single name counting as a list of one
GivenNames(c) ==
    IF args[c].topic_names.t = "str"
    THEN <<args[c].topic_names.v>>
    ELSE args[c].topic_names.v
SameButName(s1, s2) == [s1 EXCEPT !.topicName = ""] = [s2 EXCEPT !.topicName = ""]

\* C6: a fetch_and_lock request has one subscription per topic name, in the
\* order of the names (a single name counting as a one-element list), the
\* subscriptions differ in topicName only, and maxTasks is 1.
C6_OneSubscriptionPerTopic ==
    \A c \in Calls : \A req \in Sent(c) :
        op[c] = "fetch_and_lock" =>
            /\ Len(req.json.topics) = Len(GivenNames(c))
            /\ \A i \in 1..Len(GivenNames(c)) :
                   req.json.topics[i].topicName = GivenNames(c)[i]
            /\ \A i, j \in 1..Len(req.json.topics) :
                   SameButName(req.json.topics[i], req.json.topics[j])
            /\ req.json.maxTasks = 1

C6_Witness ==
    \E c \in Calls : \E req \in Sent(c) :
        /\ op[c] = "fetch_and_lock"
        /\ args[c].topic_names = PyList(<<"a", "b">>)
        /\ args[c].process_variables = PyDict([x |-> EmptyDict])
        /\ Len(req.json.topics) = 2
        /\ req.json.topics[2].processVariables = PyDict([x |-> EmptyDict])

\* a reply that makes the attempt fail
FailedAttempt(c) ==
    \/ reply[c].kind = "error"
    \/ reply[c].kind = "response" /\ reply[c].status \notin 200..299

\* C7 as stated: every call that has returned or raised has sent exactly one
\* request, and a failed attempt ends in a raised error.
C7_ExactlyOneRequest ==
    \A c \in Calls :
        Done(c) => /\ Len(wire[c]) = 1
                   /\ FailedAttempt(c) => outcome[c].kind = "raise"

\* C7 amended: no call ever sends a second request; a call waiting for the
\* transport has sent exactly one; a call that has ended has sent exactly one
\* unless assembling the request raised, in which case it sent none and that
\* error is what it raised; a failed attempt ends in a raised error.
C7_SingleAttempt ==
    \A c \in Calls :
        /\ Len(wire[c]) <= 1
        /\ pc[c] \in {"idle", "built"} => Len(wire[c]) = 0
        /\ pc[c] = "awaiting" => Len(wire[c]) = 1
        /\ Done(c) /\ reply[c].kind # "none" => Len(wire[c]) = 1
        /\ Done(c) /\ reply[c].kind = "none" =>
               Len(wire[c]) = 0 /\ outcome[c] = Raised("ConfigurationError", 0)
        /\ Done(c) /\ FailedAttempt(c) => outcome[c].kind = "raise"

C7_Witness ==
    \E c, d \in Calls :
        /\ Done(c) /\ op[c] = "complete" /\ reply[c] = Failure("ReadTimeout")
        /\ Len(wire[c]) = 1 /\ outcome[c].kind = "raise"
        /\ Done(d) /\ op[d] = "fetch_and_lock" /\ reply[d].kind = "response"
        /\ reply[d].status = 404 /\ Len(wire[d]) = 1 /\ outcome[d].kind = "raise"

\* call c is a complete call for a task that a complete call had already
\* returned True for when c was invoked
RepeatedComplete(c) == op[c] = "complete" /\ args[c].task_id \in seen[c]

\* C8: a repeated complete call still posts its request to the task's
\* complete URL, and ends as the reply to that request decides: raising on a
\* transport failure or a non-2xx status, True on 204, False on another 2xx.
C8_RepeatedCompleteIsSent ==
    \A c \in Calls :
        RepeatedComplete(c) /\ Done(c) =>
            /\ Len(wire[c]) = 1
            /\ wire[c][1].url = <<ENGINE_LOCAL_BASE_URL, "external-task",
                                  args[c].task_id, "complete">>
            /\ reply[c].kind # "none"
            /\ reply[c].kind = "error" => outcome[c].kind = "raise"
            /\ reply[c].kind = "response" =>
                   IF reply[c].status \in 200..299
                   THEN ReturnedBool(c, reply[c].status = 204)
                   ELSE outcome[c].kind = "raise" /\ outcome[c].status = reply[c].status

C8_Witness ==
    \E c \in Calls :
        /\ RepeatedComplete(c) /\ Done(c)
        /\ Len(wire[c]) = 1
        /\ reply[c] = Response(404, "")
        /\ outcome[c].kind = "raise" /\ outcome[c].status = 404

\* C9: the retries and retryTimeout fields of every failure request are the
\* retries and retry_timeout arguments of the call, unchanged.
C9_RetriesForwarded ==
    \A c \in Calls : \A req \in Sent(c) :
        op[c] = "failure" =>
            /\ req.json["retries"] = args[c].retries
            /\ req.json["retryTimeout"] = args[c].retry_timeout

C9_Witness ==
    \E c \in Calls : \E req \in Sent(c) :
        /\ op[c] = "failure"
        /\ args[c].retries = 0 /\ args[c].retry_timeout = 500
        /\ req.json["retries"] = 0 /\ req.json["retryTimeout"] = 500
        /\ client.config.retries = 3

\* the request an operation sends for given arguments on a given client
BodyOf(o, a, self) ==
    CASE o = "fetch_and_lock" ->
             FetchAndLockBody(self, a.topic_names, a.process_variables, a.variables)
      [] o = "complete" -> CompleteBody(self, a.global_variables, a.local_variables)
      [] o = "failure" ->
             FailureBody(self, a.error_message, a.error_details, a.retries, a.retry_timeout)
      [] o = "bpmn_failure" ->
             BpmnFailureBody(self, a.error_code, a.error_message, a.variables)
UrlOf(o, a, self) ==
    CASE o = "fetch_and_lock" -> get_fetch_and_lock_url(self)
      [] o = "complete" -> get_task_complete_url(self, a.task_id)
      [] o = "failure" -> get_task_failure_url(self, a.task_id)
      [] o = "bpmn_failure" -> get_task_bpmn_error_url(self, a.task_id)
TimeoutOf(o, self) ==
    IF o = "fetch_and_lock"
    THEN DivThousand(self.config.timeoutDeltaMillis + self.config.asyncResponseTimeout)
    ELSE DivThousand(self.config.httpTimeoutMillis)
OwnRequest(o, a, self) ==
    Request(UrlOf(o, a, self), _get_headers(self), BodyOf(o, a, self), TimeoutOf(o, self))

\* the client as __init__ left it, rebuilt from its own configuration
Constructed(self) ==
    self = [self EXCEPT !.http_timeout_seconds = DivThousand(self.config.httpTimeoutMillis)]

\* C10: no step of any call changes worker_id, external_task_base_url, config
\* or http_timeout_seconds, and the request a call has sent is the one its own
\* arguments and the constructed client give, whatever other calls ran.
C10_ClientIsImmutable ==
    /\ [][client' = client]_vars
    /\ [](Constructed(client)
          /\ \A c \in Calls : \A req \in Sent(c) : req = OwnRequest(op[c], args[c], client))

C10_Witness ==
    \E c, d \in Calls :
        /\ c < d
        /\ op[c] = "fetch_and_lock" /\ pc[c] = "awaiting"
        /\ op[d] = "complete" /\ pc[d] = "awaiting"
        /\ wire[d][1].timeout = DivThousand(1500)
        /\ wire[c][1].timeout = DivThousand(35000)

====
